---- MODULE Spec2Model ----
(***************************************************************************)
(* SwarmSailorGUI.py: the serial protocol layer of the SWARM control panel *)
(* as a state machine.  A Python str is a sequence of characters; a        *)
(* character is a one-character string, or "U+20AC" for the Euro sign.     *)
(* A bytes value is a sequence of integers 0..255.                         *)
(***************************************************************************)
EXTENDS Integers, Sequences, FiniteSets, TLC

(***************************************************************************)
(* Bounds of the model.                                                    *)
(***************************************************************************)
\* the most complete lines the read buffer holds when the handler runs
MaxBuffer == 2

\* the most lines MessageHistory.log grows by
MaxLog == 3

\* the reported signal strengths run from -WeakestRSSI to -StrongestRSSI dBm
StrongestRSSI == 85

WeakestRSSI == 110

(***************************************************************************)
(* Characters, ord(), UTF-8 and hexadecimal formatting.                    *)
(***************************************************************************)
AsciiPrintable ==
  <<" ", "!", "\"", "#", "$", "%", "&", "'", "(", ")", "*", "+", ",", "-",
    ".", "/", "0", "1", "2", "3", "4", "5", "6", "7", "8", "9", ":", ";",
    "<", "=", ">", "?", "@", "A", "B", "C", "D", "E", "F", "G", "H", "I",
    "J", "K", "L", "M", "N", "O", "P", "Q", "R", "S", "T", "U", "V", "W",
    "X", "Y", "Z", "[", "\\", "]", "^", "_", "U+0060", "a", "b", "c", "d", "e",
    "f", "g", "h", "i", "j", "k", "l", "m", "n", "o", "p", "q", "r", "s",
    "t", "u", "v", "w", "x", "y", "z", "{", "|", "}", "~">>

\* ord(c): the Unicode code point of a character
ord(c) ==
  IF c = "\n" THEN 10
  ELSE IF c = "U+20AC" THEN 8364
  ELSE 31 + (CHOOSE i \in 1..Len(AsciiPrintable) : AsciiPrintable[i] = c)

RECURSIVE Xor(_, _)
\* a ^ b on non-negative integers
Xor(a, b) ==
  IF a = 0 THEN b
  ELSE IF b = 0 THEN a
  ELSE 2 * Xor(a \div 2, b \div 2) + (((a % 2) + (b % 2)) % 2)

RECURSIVE chksum_from(_, _)
chksum_from(csum, sentence) ==
  IF sentence = <<>> THEN csum
  ELSE chksum_from(Xor(csum, ord(Head(sentence))), Tail(sentence))

\* Ui.chksum_nmea: csum = 0; for c in sentence: csum ^= ord(c)
chksum_nmea(sentence) == chksum_from(0, sentence)

HexDigit(n) == AsciiPrintable[IF n < 10 THEN 17 + n ELSE 24 + n]

RECURSIVE HexDigits(_)
HexDigits(n) ==
  IF n < 16 THEN <<HexDigit(n)>>
  ELSE HexDigits(n \div 16) \o <<HexDigit(n % 16)>>

\* str.format('{:02X}', n): upper-case hexadecimal, zero-padded to a minimum
\* width of two (wider when n > 255)
Format02X(n) == IF n < 16 THEN <<"0">> \o HexDigits(n) ELSE HexDigits(n)

\* the UTF-8 encoding of one code point below 0x10000
Utf8(cp) ==
  IF cp < 128 THEN <<cp>>
  ELSE IF cp < 2048 THEN <<192 + (cp \div 64), 128 + (cp % 64)>>
  ELSE <<224 + (cp \div 4096), 128 + ((cp \div 64) % 64), 128 + (cp % 64)>>

RECURSIVE encode(_)
\* bytes(s, 'utf-8') and s.encode('utf-8')
encode(s) ==
  IF s = <<>> THEN <<>> ELSE Utf8(ord(Head(s))) \o encode(Tail(s))

RECURSIVE DecimalDigits(_)
DecimalDigits(n) ==
  IF n < 10 THEN <<HexDigit(n)>>
  ELSE DecimalDigits(n \div 10) \o <<HexDigit(n % 10)>>

\* str(n) of an int
str(n) == IF n < 0 THEN <<"-">> \o DecimalDigits(-n) ELSE DecimalDigits(n)

(***************************************************************************)
(* Text operations used by the receive handler.                            *)
(***************************************************************************)
\* the characters matched by \s
Whitespace == {" ", "\n", "\t", "\r", "\f"}

\* the characters matched by regex = '\s|,|\*|='
Delimiters == Whitespace \cup {",", "*", "="}

RECURSIVE SplitFrom(_, _, _)
SplitFrom(s, cur, acc) ==
  IF s = <<>> THEN Append(acc, cur)
  ELSE IF Head(s) \in Delimiters THEN SplitFrom(Tail(s), <<>>, Append(acc, cur))
  ELSE SplitFrom(Tail(s), Append(cur, Head(s)), acc)

\* re.split(regex, text): one more field than there are delimiter characters
Split(text) == SplitFrom(text, <<>>, <<>>)

RECURSIVE LStrip(_)
LStrip(s) ==
  IF s # <<>> /\ Head(s) \in Whitespace THEN LStrip(Tail(s)) ELSE s

RECURSIVE RStrip(_)
RStrip(s) ==
  IF s # <<>> /\ s[Len(s)] \in Whitespace
  THEN RStrip(SubSeq(s, 1, Len(s) - 1)) ELSE s

\* text.strip()
Strip(text) == RStrip(LStrip(text))

\* substring in text
Contains(text, substring) ==
  \E i \in 1..(Len(text) - Len(substring) + 1) :
    SubSeq(text, i, i + Len(substring) - 1) = substring

\* text[0:3]
Tag(text) == SubSeq(text, 1, IF Len(text) < 3 THEN Len(text) ELSE 3)

Digits == {"0", "1", "2", "3", "4", "5", "6", "7", "8", "9"}

DigitValue(d) == ord(d) - 48

\* a run of decimal digits, a single "_" allowed between two digits
DigitsOK(s) ==
  /\ s # <<>>
  /\ s[1] \in Digits
  /\ s[Len(s)] \in Digits
  /\ \A i \in 1..Len(s) : s[i] \in Digits \cup {"_"}
  /\ \A i \in 1..(Len(s) - 1) : ~(s[i] = "_" /\ s[i + 1] = "_")

RECURSIVE DigitsValue(_, _)
DigitsValue(acc, s) ==
  IF s = <<>> THEN acc
  ELSE IF Head(s) = "_" THEN DigitsValue(acc, Tail(s))
  ELSE DigitsValue(10 * acc + DigitValue(Head(s)), Tail(s))

Signed(s) == s # <<>> /\ Head(s) \in {"+", "-"}

Unsigned(s) == IF Signed(s) THEN Tail(s) ELSE s

Sign(s) == IF s # <<>> /\ Head(s) = "-" THEN -1 ELSE 1

\* int(s) returns a value (otherwise it raises ValueError); s is a field of
\* Split, so it carries no whitespace
IsInt(s) == DigitsOK(Unsigned(s))

\* int(s)
ParseInt(s) == Sign(s) * DigitsValue(0, Unsigned(s))

DotAt(s) == CHOOSE i \in 1..Len(s) : s[i] = "."

HasDot(s) == \E i \in 1..Len(s) : s[i] = "."

IntPart(s) == IF HasDot(s) THEN SubSeq(s, 1, DotAt(s) - 1) ELSE s

FracPart(s) == IF HasDot(s) THEN SubSeq(s, DotAt(s) + 1, Len(s)) ELSE <<>>

\* float(s) returns a value (otherwise it raises ValueError), for the
\* decimal forms [sign] digits [. [digits]] and [sign] . digits; exponent,
\* "inf" and "nan" forms do not occur in the modelled lines
IsFloat(s) ==
  LET u == Unsigned(s) IN
    /\ IntPart(u) = <<>> \/ DigitsOK(IntPart(u))
    /\ FracPart(u) = <<>> \/ DigitsOK(FracPart(u))
    /\ IntPart(u) # <<>> \/ FracPart(u) # <<>>

RECURSIVE DropZeros(_)
DropZeros(s) ==
  IF s # <<>> /\ s[Len(s)] \in {"0", "_"}
  THEN DropZeros(SubSeq(s, 1, Len(s) - 1)) ELSE s

\* float(s) as a decimal: mantissa m and number e of fractional digits, in
\* lowest terms (value m / 10^e)
ParseFloat(s) ==
  LET u == Unsigned(s)
      f == DropZeros(FracPart(u))
  IN [m |-> Sign(s) * DigitsValue(DigitsValue(0, IntPart(u)), f),
      e |-> Len(SelectSeq(f, LAMBDA c : c \in Digits))]

(***************************************************************************)
(* Program state.                                                          *)
(***************************************************************************)
VARIABLES
  portAvailable,           \* currentPort() is among gen_serial_ports()
  ser,                     \* self.ser: "none" (attribute not set), "closed", "open"
  comm_status,             \* current_system_status.comm_status
  RSSI,                    \* current_system_status.RSSI
  tx_waiting,              \* current_system_status.tx_waiting
  rx_waiting,              \* current_system_status.rx_waiting
  current_geolocation,     \* the global Geolocation object
  rxbuf,                   \* complete lines waiting in self.ser's read buffer
  wire,                    \* what the latest handler wrote to self.ser, per command
  Serial_Monitor_Display,  \* lines the latest handler appended to that text box
  Messages_Display,        \* lines the latest handler appended to that text box
  polled,                  \* arguments of the latest handler's getUnreadMessages calls
  last_text,               \* text: the line the latest handler read last, <<>> if none
  nread,                   \* how many lines the latest handler read
  uncaught,                \* exception that left the latest handler, or "none"
  MSGLOG,                  \* the lines of the file MessageHistory.log
  GRIBFOLDER,              \* the files of the folder GRIBs
  dialogMessage,           \* the QDialogMessage that is open, or None
  dialogGRIB,              \* the QDialogGRIB that is open, or None
  data_Status              \* the text of the label data_Status, <<>> before the first refresh

\* The serial line and the two text boxes only ever grow (write and
\* appendPlainText); the model keeps the part the latest handler added.

vars ==
  <<portAvailable, ser, comm_status, RSSI, tx_waiting, rx_waiting,
    current_geolocation, wire, rxbuf, Serial_Monitor_Display,
    Messages_Display, polled, last_text, nread, uncaught,
    MSGLOG, GRIBFOLDER, dialogMessage, dialogGRIB, data_Status>>

\* the files SwarmMessage.write_to_disk writes
files == <<MSGLOG, GRIBFOLDER>>

\* the modal dialogs
dialogs == <<dialogMessage, dialogGRIB>>

\* the labels timer1s_exec refreshes
labels == <<data_Status>>

\* the main window, the serial port and the device status
link ==
  <<portAvailable, ser, comm_status, RSSI, tx_waiting, rx_waiting,
    current_geolocation, wire, rxbuf, Serial_Monitor_Display,
    Messages_Display, polled, last_text, nread, uncaught>>

\* no object
None == [class |-> "NoneType"]

\* a Python int and a Python str, kept apart as Python keeps them apart
PyInt(n) == [type |-> "int", val |-> n]

PyStr(t) == [type |-> "str", val |-> t]

\* class Geolocation: the class attributes
Geolocation ==
  [latitude |-> [m |-> 0, e |-> 0], longitude |-> [m |-> 0, e |-> 0],
   altitude |-> 0, course |-> 0, speed |-> 0]

\* a line of a text box: the clock prefix is left out; dir is "<" for a
\* received line, ">" for a sent one, "" for a notice
Shown(dir, text) == [dir |-> dir, text |-> text]

Notice(words) == Shown("", <<words>>)

Init ==
  /\ portAvailable \in BOOLEAN
  /\ ser = "none"
  /\ comm_status = "Disconnected"
  /\ RSSI = PyInt(0)
  /\ tx_waiting = PyInt(0)
  /\ rx_waiting = PyInt(0)
  /\ current_geolocation = Geolocation
  /\ wire = <<>>
  /\ rxbuf = <<>>
  /\ Serial_Monitor_Display = <<>>
  /\ Messages_Display = <<>>
  /\ polled = <<>>
  /\ last_text = <<>>
  /\ nread = 0
  /\ uncaught = "none"
  /\ MSGLOG = <<>>
  /\ GRIBFOLDER = {}
  /\ dialogMessage = None
  /\ dialogGRIB = None
  /\ data_Status = <<>>

(***************************************************************************)
(* Sending.  A handler works on the record of the fields its calls touch;  *)
(* exc names the exception that is propagating, "none" while none is.      *)
(***************************************************************************)
Enter ==
  [ser |-> ser, comm_status |-> comm_status, rxbuf |-> rxbuf, wire |-> <<>>,
   mon |-> <<>>, exc |-> "none"]

\* try: self.ser.close() except: pass -- QSerialPort.close() drops the read
\* buffer; without the attribute the AttributeError is swallowed
TryClose(s) ==
  IF s.ser = "none" THEN s ELSE [s EXCEPT !.ser = "closed", !.rxbuf = <<>>]

CS == <<"C", "S">>

FV == <<"F", "V">>

GN2 == <<"G", "N", " ", "2">>

RT2 == <<"R", "T", " ", "2">>

MMLU == <<"M", "M", " ", "L", "=", "U">>

MTCU == <<"M", "T", " ", "C", "=", "U">>

\* what the operator may have typed in Serial_Monitor_SendLine
SendLineTexts == {<<>>, CS, <<"T", "D", " ", "U+20AC">>}

\* every argument send_Serial_Command is called with
Commands == {CS, FV, GN2, RT2, MMLU, MTCU} \cup (SendLineTexts \ {<<>>})

\* the five self.ser.write calls of one command
Frame(message) ==
  encode(<<"$">>) \o encode(message) \o encode(<<"*">>)
    \o encode(Format02X(chksum_nmea(message))) \o encode(<<"\n">>)

\* print_msg without the clock
Printed(message) ==
  Shown(">", <<"$">> \o message \o <<"*">> \o Format02X(chksum_nmea(message)))

\* Frame and Printed of each command
Written == [message \in Commands |-> Frame(message)]

Echoed == [message \in Commands |-> Printed(message)]

\* Frame and Printed of any text, from the tables where they hold it
FrameOf(message) ==
  IF message \in Commands THEN Written[message] ELSE Frame(message)

PrintedOf(message) ==
  IF message \in Commands THEN Echoed[message] ELSE Printed(message)

\* send_Serial_Command with the test for the empty message moved behind the
\* writes
send_Serial_Command_write_first(s, message, printthis) ==
  IF s.exc # "none" THEN s
  ELSE IF ~portAvailable
    THEN TryClose([s EXCEPT !.comm_status = "Error: Port Not Available!"])
  ELSE IF s.ser = "none" THEN [s EXCEPT !.exc = "AttributeError"]
  ELSE LET w == IF s.ser = "open"
                THEN [s EXCEPT !.wire =
                        Append(@, [message |-> message, bytes |-> Frame(message)])]
                ELSE s
       IN IF message = <<>>
          THEN [w EXCEPT !.mon =
                  Append(@, Notice("Warning: Nothing To Do! Message Is Empty!"))]
          ELSE IF printthis THEN [w EXCEPT !.mon = Append(@, Printed(message))]
          ELSE w

\* Ui.send_Serial_Command
send_Serial_Command(s, message, printthis) ==
  IF s.exc # "none" THEN s
  ELSE IF ~portAvailable
    THEN TryClose([s EXCEPT !.comm_status = "Error: Port Not Available!"])
  ELSE IF message = <<>>
    THEN [s EXCEPT !.mon =
            Append(@, Notice("Warning: Nothing To Do! Message Is Empty!"))]
  ELSE IF s.ser = "none" THEN [s EXCEPT !.exc = "AttributeError"]
  ELSE LET w == IF s.ser = "open"
                THEN [s EXCEPT !.wire =
                        Append(@, [message |-> message, bytes |-> FrameOf(message)])]
                ELSE s
       IN IF printthis THEN [w EXCEPT !.mon = Append(@, PrintedOf(message))]
          ELSE w

\* Ui.sendTDSwarm
sendTDSwarm(s, appid, message) ==
  send_Serial_Command(
    s, <<"T", "D", " ", "A", "I", "=">> \o str(appid) \o <<",", "\"">>
         \o message \o <<"\"">>, TRUE)

\* a handler that only sends returns: the record becomes the state
Leave(s) ==
  /\ ser' = s.ser
  /\ comm_status' = s.comm_status
  /\ wire' = s.wire
  /\ rxbuf' = s.rxbuf
  /\ Serial_Monitor_Display' = s.mon
  /\ uncaught' = s.exc
  /\ Messages_Display' = <<>>
  /\ polled' = <<>>
  /\ last_text' = <<>>
  /\ nread' = 0
  /\ UNCHANGED <<portAvailable, RSSI, tx_waiting, rx_waiting,
                 current_geolocation>>

\* Ui.Mailbox_check
Mailbox_check(s) ==
  send_Serial_Command(send_Serial_Command(s, MMLU, TRUE), MTCU, TRUE)

\* the Mailbox button
Button_Mailbox_click ==
  /\ Leave(Mailbox_check(Enter))
  /\ UNCHANGED <<files, labels, dialogs>>

\* Ui.timer5s_exec
timer5s_exec ==
  /\ Leave(send_Serial_Command(send_Serial_Command(Enter, MMLU, FALSE), MTCU, FALSE))
  /\ UNCHANGED <<files, labels, dialogs>>

\* Ui.Button_Serial_Monitor_Send_click
Button_Serial_Monitor_Send_click ==
  /\ \E text \in SendLineTexts : Leave(send_Serial_Command(Enter, text, TRUE))
  /\ UNCHANGED <<files, labels, dialogs>>

\* Ui.Button_Open_Port_click without the test for a port that is already open
Button_Open_Port_click_reopens ==
  /\ UNCHANGED <<files, labels, dialogs>>
  /\ \E opened \in BOOLEAN :
       LET s == Enter IN
         IF ~portAvailable
         THEN Leave(TryClose([s EXCEPT
                !.mon = Append(@, Notice("Error: Port Not Available!")),
                !.comm_status = "Error: Port Not Available!"]))
         ELSE
           LET o  == [s EXCEPT !.ser = IF opened THEN "open" ELSE "closed",
                               !.rxbuf = <<>>]
               c1 == send_Serial_Command(o, CS, TRUE)
               c2 == send_Serial_Command(c1, FV, TRUE)
               c3 == send_Serial_Command(c2, GN2, TRUE)
               c4 == send_Serial_Command(c3, RT2, TRUE)
               m  == Mailbox_check(c4)
           IN Leave([m EXCEPT !.mon = Append(@, Notice("Port is now open")),
                              !.comm_status = "Comm OK"])

\* Ui.Button_Open_Port_click; opened is the result of QSerialPort.open()
Button_Open_Port_click ==
  /\ UNCHANGED <<files, labels, dialogs>>
  /\ \E opened \in BOOLEAN :
       LET s == Enter IN
         IF ~portAvailable
         THEN Leave(TryClose([s EXCEPT
                !.mon = Append(@, Notice("Error: Port Not Available!")),
                !.comm_status = "Error: Port Not Available!"]))
         ELSE IF s.ser = "open"
         THEN Leave([s EXCEPT !.mon = Append(@, Notice("Port Is Already Open!"))])
         ELSE
           LET o  == [s EXCEPT !.ser = IF opened THEN "open" ELSE "closed",
                               !.rxbuf = <<>>]
               c1 == send_Serial_Command(o, CS, TRUE)
               c2 == send_Serial_Command(c1, FV, TRUE)
               c3 == send_Serial_Command(c2, GN2, TRUE)
               c4 == send_Serial_Command(c3, RT2, TRUE)
               m  == Mailbox_check(c4)
           IN Leave([m EXCEPT !.mon = Append(@, Notice("Port is now open")),
                              !.comm_status = "Comm OK"])

\* Ui.Button_Close_Port_click
Button_Close_Port_click ==
  /\ UNCHANGED <<files, labels, dialogs>>
  /\ LET s == Enter IN
       IF ~portAvailable
       THEN Leave(TryClose([s EXCEPT
              !.mon = Append(@, Notice("Error: Port No Longer Available!")),
              !.comm_status = "Error: Port Not Available!"]))
       ELSE IF s.ser # "open"
       THEN Leave(TryClose([s EXCEPT
              !.mon = Append(@, Notice("Port Is Already Closed!"))]))
       ELSE Leave([TryClose(s) EXCEPT
              !.mon = Append(@, Notice("Port is now closed"))])

\* the operating system adds the selected port to, or drops it from, the
\* list gen_serial_ports() returns
PortListChanges ==
  /\ portAvailable' = ~portAvailable
  /\ UNCHANGED <<ser, comm_status, RSSI, tx_waiting, rx_waiting,
                 current_geolocation, wire, rxbuf, Serial_Monitor_Display,
                 Messages_Display, polled, last_text, nread, uncaught,
                 files, labels, dialogs>>

(***************************************************************************)
(* Receiving.  The lines the device sends; each is a complete line with    *)
(* its terminator.                                                         *)
(***************************************************************************)
\* $RT RSSI=-95*21
LineRT1 ==
  <<"$", "R", "T", " ", "R", "S", "S", "I", "=", "-", "9", "5", "*", "2", "1", "\n">>

\* $MT 2*0B
LineMT ==
  <<"$", "M", "T", " ", "2", "*", "0", "B", "\n">>

\* $MM 0*10
LineMM0 ==
  <<"$", "M", "M", " ", "0", "*", "1", "0", "\n">>

\* $MM 4,5,6*17
LineMMList ==
  <<"$", "M", "M", " ", "4", ",", "5", ",", "6", "*", "1", "7", "\n">>

\* $GN 1.5,2.5,3,4,5*18
LineGN1 ==
  <<"$", "G", "N", " ", "1", ".", "5", ",", "2", ".", "5", ",", "3", ",", "4", ",", "5", "*", "1", "8", "\n">>

\* $GN 8.5,9.5*04
LineGNShort ==
  <<"$", "G", "N", " ", "8", ".", "5", ",", "9", ".", "5", "*", "0", "4", "\n">>

\* $FV v1*77
LineFV ==
  <<"$", "F", "V", " ", "v", "1", "*", "7", "7", "\n">>

DeviceLines ==
  {LineRT1, LineMT, LineMM0, LineMMList, LineGN1, LineGNShort, LineFV}

\* the signal strengths the device reports, in dBm
RSSIValues == (0 - WeakestRSSI) .. (0 - StrongestRSSI)

\* $RT RSSI=<n>*<checksum>
LineRT(n) ==
  LET payload == <<"R", "T", " ", "R", "S", "S", "I", "=">> \o str(n)
  IN <<"$">> \o payload \o <<"*">> \o Format02X(chksum_nmea(payload)) \o <<"\n">>

StatusLines == {LineRT(n) : n \in RSSIValues}

\* substring_ignore_list without the reply that reports no unread message
substring_ignore_list_without_MM0 ==
  {<<"D", "B", "X", "_", "N", "O", "M", "O", "R", "E">>,
   <<"C", "M", "D", "_", "B", "A", "D", "P", "A", "R", "A", "M", "V", "A", "L", "U", "E">>,
   <<"M", "M", " ", "O", "K", "*", "2", "4">>}

\* substring_ignore_list
substring_ignore_list ==
  {<<"D", "B", "X", "_", "N", "O", "M", "O", "R", "E">>,
   <<"C", "M", "D", "_", "B", "A", "D", "P", "A", "R", "A", "M", "V", "A", "L", "U", "E">>,
   <<"M", "M", " ", "O", "K", "*", "2", "4">>,
   <<"M", "M", " ", "0", "*", "1", "0">>}

\* what one arrival of data can add to a read buffer that holds held lines
Chunks(held) ==
  UNION {[1..n -> DeviceLines] : n \in 1..(MaxBuffer - held)}

\* re.split(regex, text), text[0:3], text.strip() and the test against
\* substring_ignore_list, for each line of DeviceLines
Decoded ==
  [text \in DeviceLines \cup StatusLines |->
    [array |-> Split(text), tag |-> Tag(text), stripped |-> Strip(text),
     ignore |-> \E substring \in substring_ignore_list :
                  Contains(text, substring)]]

\* the record the read loop works on; ctl is "next" while the loop goes on,
\* "break" after a break, and the exception's name after a raise
Raise(r, exception) == [r EXCEPT !.ctl = exception]

\* Ui.getUnreadMessages: "Incoming Data: " + list_messages raises TypeError,
\* list_messages being the list array[1:]; nothing after it is executed
getUnreadMessages(r, list_messages) ==
  Raise([r EXCEPT !.polled = Append(@, list_messages)], "TypeError")

GeoFields == <<"latitude", "longitude", "altitude", "course", "speed">>

\* float(array[k]) for latitude and longitude, int(array[k]) for the others
Convertible(k, field) == IF k <= 2 THEN IsFloat(field) ELSE IsInt(field)

Converted(k, field) == IF k <= 2 THEN ParseFloat(field) ELSE ParseInt(field)

RECURSIVE AssignFix(_, _, _)
\* case '$GN': the assignments current_geolocation.<field k> = array[k], in
\* order from field k on; the first one that raises ends them
AssignFix(r, array, k) ==
  IF k > 5 THEN r
  ELSE IF Len(array) < k + 1 THEN Raise(r, "IndexError")
  ELSE IF ~Convertible(k, array[k + 1]) THEN Raise(r, "ValueError")
  ELSE AssignFix([r EXCEPT !.geo[GeoFields[k]] = Converted(k, array[k + 1])],
                 array, k + 1)

\* the body of the while loop of Ui.receive for one line
match_text(r, text) ==
  LET array == Decoded[text].array
      tag == Decoded[text].tag
  IN
    IF tag = <<"$", "R", "T">> THEN
      IF Len(array) < 3 THEN Raise(r, "IndexError")
      ELSE IF ~IsInt(array[3]) THEN Raise(r, "ValueError")
      ELSE [r EXCEPT !.RSSI = PyInt(ParseInt(array[3]))]
    ELSE IF tag = <<"$", "M", "T">> THEN
      IF Len(array) < 2 THEN Raise(r, "IndexError")
      ELSE [r EXCEPT !.tx_waiting = PyStr(array[2])]
    ELSE IF tag = <<"$", "M", "M">> THEN
      IF Decoded[text].ignore
      THEN [r EXCEPT !.ctl = "break"]
      ELSE getUnreadMessages(
             [r EXCEPT !.mon = Append(@, Shown("<", Decoded[text].stripped))],
             Tail(array))
    ELSE IF tag = <<"$", "G", "N">> THEN AssignFix(r, array, 1)
    ELSE [r EXCEPT !.mon = Append(@, Shown("<", Decoded[text].stripped))]

RECURSIVE read_loop(_)
\* while self.ser.canReadLine(): text = self.ser.readLine()...; a break or
\* an exception (caught by the except: pass around the loop) ends it
read_loop(r) ==
  IF r.buf = <<>> \/ r.ctl # "next" THEN r
  ELSE read_loop(match_text([r EXCEPT !.buf = Tail(@), !.text = Head(r.buf),
                                      !.nread = @ + 1],
                            Head(r.buf)))

\* Ui.receive, run by the readyRead signal when chunk has arrived
receive_chunk(chunk) ==
  /\ ser = "open"
  /\ portAvailable
  /\ \E r \in {read_loop([RSSI |-> RSSI, tx_waiting |-> tx_waiting,
                          geo |-> current_geolocation,
                          mon |-> <<>>, msgs |-> <<>>, polled |-> <<>>,
                          buf |-> rxbuf \o chunk, text |-> <<>>,
                          nread |-> 0, ctl |-> "next"])} :
       /\ RSSI' = r.RSSI
       /\ tx_waiting' = r.tx_waiting
       /\ current_geolocation' = r.geo
       /\ Serial_Monitor_Display' = r.mon
       /\ polled' = r.polled
       /\ Messages_Display' = r.msgs
       /\ rxbuf' = r.buf
       /\ last_text' = r.text
       /\ nread' = r.nread
  /\ wire' = <<>>
  /\ uncaught' = "none"
  /\ UNCHANGED <<portAvailable, ser, comm_status, rx_waiting, files, labels, dialogs>>

\* Ui.receive for any lines of DeviceLines the buffer has room for
receive == \E chunk \in Chunks(Len(rxbuf)) : receive_chunk(chunk)

(***************************************************************************)
(* Retrieved messages and their persistence.                               *)
(***************************************************************************)
APPID_INCOMING_GRIB == 37700

\* 37700,1,2,3,wx
ReplyGRIB ==
  <<"3", "7", "7", "0", "0", ",", "1", ",", "2", ",", "3", ",", "w", "x", "\n">>

\* 37700,1,2,3,weather
ReplyGRIBLong ==
  <<"3", "7", "7", "0", "0", ",", "1", ",", "2", ",", "3", ",", "w", "e", "a", "t", "h", "e", "r", "\n">>

\* 37550,1,2,3,hi
ReplyMessage ==
  <<"3", "7", "5", "5", "0", ",", "1", ",", "2", ",", "3", ",", "h", "i", "\n">>

\* 37500,1,2,3,yo
ReplyOutgoing ==
  <<"3", "7", "5", "0", "0", ",", "1", ",", "2", ",", "3", ",", "y", "o", "\n">>

\* 7,1,2,3,zz
ReplyOther ==
  <<"7", ",", "1", ",", "2", ",", "3", ",", "z", "z", "\n">>

\* 37700,1
ReplyShort ==
  <<"3", "7", "7", "0", "0", ",", "1", "\n">>

\* lines a retrieval can read as new_message
ReplyLines ==
  {ReplyGRIB, ReplyGRIBLong, ReplyMessage, ReplyOutgoing, ReplyOther, ReplyShort}

\* SwarmMessage.__init__ returns: array[4] exists (otherwise IndexError)
Constructible(buildabear) == Len(Split(buildabear)) >= 5

\* SwarmMessage.__init__: the five attributes, each a str
SwarmMessage(buildabear) ==
  LET array == Split(buildabear) IN
    [appid |-> PyStr(array[1]), rssi |-> PyStr(array[2]),
     snr |-> PyStr(array[3]), fdev |-> PyStr(array[4]),
     data |-> PyStr(array[5])]

\* a == b of Python for an int or a str on either side: values of different
\* types are never equal
PyEq(a, b) == a.type = b.type /\ a.val = b.val

\* SwarmMessage.print_nice
print_nice(self) == <<"New Message ">> \o self.data.val

\* self.data[0:6]
Prefix6(t) == SubSeq(t, 1, IF Len(t) < 6 THEN Len(t) ELSE 6)

\* SwarmMessage.write_to_disk, without the clock in the line and the name
write_to_disk(self) ==
  IF PyEq(self.appid, PyInt(APPID_INCOMING_GRIB))
  THEN /\ GRIBFOLDER' = GRIBFOLDER \cup
            {[name |-> Prefix6(self.data.val) \o <<".grb2">>,
              content |-> print_nice(self)]}
       /\ UNCHANGED MSGLOG
  ELSE /\ MSGLOG' = Append(MSGLOG, Shown("<", print_nice(self)))
       /\ UNCHANGED GRIBFOLDER

\* SwarmMessage(new_message).write_to_disk() for a line new_message
Persist ==
  /\ Len(MSGLOG) < MaxLog
  /\ \E new_message \in ReplyLines :
       /\ Constructible(new_message)
       /\ write_to_disk(SwarmMessage(new_message))
  /\ UNCHANGED <<link, labels, dialogs>>

(***************************************************************************)
(* The text message dialog.                                                *)
(***************************************************************************)
APPID_OUTGOING_MESSAGE == 37500

\* what the operator may type in lineEdit_TO, lineEdit_Subject and
\* plainTextEdit_Message
ToTexts == {<<>>, <<"x">>}

SubjectTexts == {<<>>, <<"y">>}

BodyTexts == {<<>>, <<"z">>}

\* values of random.randint(10, 99)
SequenceNumbers == {10, 57, 99}

\* the text label_Size_Calc has in message.ui, before calculateMessage runs
LabelOfForm == [form |-> "message.ui"]

\* math.ceil(n / 192) for a length n
CeilDiv192(n) == (n + 191) \div 192

\* QDialogMessage.calculateMessage
calculateMessage(self) ==
  LET return_message ==
        <<"T", ":">> \o self.lineEdit_TO \o <<"S", ":">>
          \o self.lineEdit_Subject \o <<"M">> \o self.plainTextEdit_Message
  IN [self EXCEPT
        !.return_message = return_message,
        !.label_Size_Calc = [chars |-> Len(return_message),
                             packets |-> CeilDiv192(Len(return_message))]]

\* QDialogMessage.__init__: return_message is the class attribute ''
QDialogMessage ==
  [lineEdit_TO |-> <<>>, lineEdit_Subject |-> <<>>,
   plainTextEdit_Message |-> <<>>, return_message |-> <<>>,
   label_Size_Calc |-> LabelOfForm]

NoDialog == dialogMessage = None /\ dialogGRIB = None

\* Ui.Button_Send_Message_click up to dialog.exec_()
Button_Send_Message_click ==
  /\ NoDialog
  /\ dialogMessage' = QDialogMessage
  /\ UNCHANGED <<link, files, labels, dialogGRIB>>

\* the operator edits lineEdit_TO: textChanged runs calculateMessage
lineEdit_TO_textChanged ==
  /\ dialogMessage # None
  /\ \E t \in ToTexts \ {dialogMessage.lineEdit_TO} :
       dialogMessage' = calculateMessage([dialogMessage EXCEPT !.lineEdit_TO = t])
  /\ UNCHANGED <<link, files, labels, dialogGRIB>>

lineEdit_Subject_textChanged ==
  /\ dialogMessage # None
  /\ \E t \in SubjectTexts \ {dialogMessage.lineEdit_Subject} :
       dialogMessage' =
         calculateMessage([dialogMessage EXCEPT !.lineEdit_Subject = t])
  /\ UNCHANGED <<link, files, labels, dialogGRIB>>

plainTextEdit_Message_textChanged ==
  /\ dialogMessage # None
  /\ \E t \in BodyTexts \ {dialogMessage.plainTextEdit_Message} :
       dialogMessage' =
         calculateMessage([dialogMessage EXCEPT !.plainTextEdit_Message = t])
  /\ UNCHANGED <<link, files, labels, dialogGRIB>>

\* Ui.Button_Send_Message_click after dialog.exec_() has returned, by
\* Button_Send or by closing the dialog
Button_Send_Message_done ==
  /\ dialogMessage # None
  /\ \E sequence \in SequenceNumbers :
       LET message_outgoing ==
             str(sequence) \o str(1) \o str(1) \o dialogMessage.return_message
       IN Leave(sendTDSwarm(Enter, APPID_OUTGOING_MESSAGE, message_outgoing))
  /\ dialogMessage' = None
  /\ UNCHANGED <<files, labels, dialogGRIB>>

(***************************************************************************)
(* The GRIB request dialog.  Its widgets come from gribReq.ui; a signal     *)
(* runs its slots before the call that emitted it returns.                 *)
(***************************************************************************)
APPID_OUTGOING_GRIBRQ == 37600

\* the models change_model knows
Models ==
  {<<"G", "F", "S">>, <<"R", "T", "O", "F", "S">>, <<"L", "o", "c", "a", "l">>, <<"E", "C", "M", "W", "G">>, <<"S", "P", "I", "R", "E">>}

\* the check boxes, in the order calculateMessage reads them, each with the
\* text it adds
CheckBoxes ==
  <<[box |-> "checkBox_Current", text |-> <<"C", "U", "R">>],
    [box |-> "checkBox_AirT", text |-> <<"A", "I", "R", "T", "M", "P">>],
    [box |-> "checkBox_CAPE", text |-> <<"C", "A", "P", "E">>],
    [box |-> "checkBox_Cloud", text |-> <<"T", "C", "D", "C">>],
    [box |-> "checkBox_Pressure", text |-> <<"P", "R", "E", "S", "S">>],
    [box |-> "checkBox_Wave", text |-> <<"H", "T", "S", "G", "W", ",", "W", "V", "P", "E", "R", ",", "W", "V", "D", "I", "R">>],
    [box |-> "checkBox_Wind", text |-> <<"W", "I", "N", "D">>],
    [box |-> "checkBox_Wing", text |-> <<"G", "U", "S", "T">>]>>

BoxNames == {CheckBoxes[i].box : i \in DOMAIN CheckBoxes}

\* the items of comboBox_Res and comboBox_Interval in gribReq.ui
ResItems == {<<"2", ".", "0", ",", "2", ".", "0">>, <<"0", ".", "5", ",", "0", ".", "5">>}

IntervalItems == {<<"0", ",", "6", ",", "1", "2", ".", ".", "4", "8">>, <<"3">>}

\* the values the four spin boxes have in gribReq.ui
SpinBoxOfForm ==
  [spinBox_Lat_Max |-> 57, spinBox_Lat_Min |-> 44,
   spinBox_Long_Min |-> 133, spinBox_Long_Max |-> 113]

\* the values the operator may set a spin box to
SpinValues ==
  [spinBox_Lat_Max |-> {57, -5}, spinBox_Lat_Min |-> {44},
   spinBox_Long_Min |-> {133}, spinBox_Long_Max |-> {113}]

\* the items for x in range(1, n + 1): addItem(str(x))
RangeItems(n) == [x \in 1..n |-> str(x)]

\* comboBox_Range.currentText(): '' when the box is empty
RangeText(self) ==
  IF self.comboBox_Range = 0 THEN <<>>
  ELSE self.comboBox_Range_items[self.comboBox_Range]

RECURSIVE DataTypes(_, _)
\* the if statements of calculateMessage from check box i on
DataTypes(self, i) ==
  IF i > Len(CheckBoxes) THEN <<>>
  ELSE (IF CheckBoxes[i].box \in self.checked
        THEN CheckBoxes[i].text \o <<",">> ELSE <<>>)
       \o DataTypes(self, i + 1)

\* QDialogGRIB.calculateMessage; setText runs calc_size when it changes the
\* text of lineEdit_Request
calculateMessageGRIB(self) ==
  LET return_message ==
        self.comboBox_Model \o <<":">>
          \o str(self.spinBox_Lat_Max) \o <<",">>
          \o str(self.spinBox_Lat_Min) \o <<",">>
          \o str(self.spinBox_Long_Min) \o <<",">>
          \o str(self.spinBox_Long_Max) \o <<"|">>
          \o self.comboBox_Res \o <<"|">>
          \o self.comboBox_Interval \o <<",">>
          \o RangeText(self) \o <<"|">>
          \o DataTypes(self, 1)
      request == SubSeq(return_message, 1, Len(return_message) - 1)
  IN [self EXCEPT
        !.lineEdit_Request = request,
        !.data_Size_estimate =
           IF request = self.lineEdit_Request THEN Len(return_message)
           ELSE Len(request)]

\* change_model without the lines that uncheck the eight check boxes
change_model_keeps_checks(self, new_model) ==
  LET reset == [self EXCEPT !.enabled = BoxNames,
                            !.comboBox_Range_items = <<>>,
                            !.comboBox_Range = 0]
  IN IF new_model = <<"G", "F", "S">>
     THEN [reset EXCEPT
             !.comboBox_Range_items = RangeItems(16), !.comboBox_Range = 1,
             !.enabled = BoxNames \ {"checkBox_Current"},
             !.checked = @ \cup {"checkBox_Wind", "checkBox_Pressure"}]
     ELSE IF new_model = <<"R", "T", "O", "F", "S">>
     THEN [reset EXCEPT
             !.comboBox_Range_items = RangeItems(6), !.comboBox_Range = 1,
             !.checked = @ \cup {"checkBox_Current"},
             !.enabled = {}]
     ELSE reset

\* QDialogGRIB.change_model
change_model(self, new_model) ==
  LET reset == [self EXCEPT !.checked = {}, !.enabled = BoxNames,
                            !.comboBox_Range_items = <<>>,
                            !.comboBox_Range = 0]
  IN IF new_model = <<"G", "F", "S">>
     THEN [reset EXCEPT
             !.comboBox_Range_items = RangeItems(16), !.comboBox_Range = 1,
             !.enabled = BoxNames \ {"checkBox_Current"},
             !.checked = {"checkBox_Wind", "checkBox_Pressure"}]
     ELSE IF new_model = <<"R", "T", "O", "F", "S">>
     THEN [reset EXCEPT
             !.comboBox_Range_items = RangeItems(6), !.comboBox_Range = 1,
             !.checked = {"checkBox_Current"},
             !.enabled = {}]
     ELSE reset

\* QDialogGRIB.__init__ for a form whose comboBox_Model shows model
QDialogGRIB(model, res, interval) ==
  calculateMessageGRIB(change_model(
    [comboBox_Model |-> model,
     spinBox_Lat_Max |-> SpinBoxOfForm.spinBox_Lat_Max,
     spinBox_Lat_Min |-> SpinBoxOfForm.spinBox_Lat_Min,
     spinBox_Long_Min |-> SpinBoxOfForm.spinBox_Long_Min,
     spinBox_Long_Max |-> SpinBoxOfForm.spinBox_Long_Max,
     comboBox_Res |-> res, comboBox_Interval |-> interval,
     comboBox_Range_items |-> <<>>, comboBox_Range |-> 0,
     checked |-> {}, enabled |-> BoxNames,
     lineEdit_Request |-> <<>>, data_Size_estimate |-> 0,
     toggled |-> FALSE], model))

\* Ui.Button_Get_GRIB_click up to dialog.exec_()
Button_Get_GRIB_click ==
  /\ NoDialog
  /\ \E model \in Models, res \in ResItems, interval \in IntervalItems :
       dialogGRIB' = QDialogGRIB(model, res, interval)
  /\ UNCHANGED <<link, files, labels, dialogMessage>>

\* the operator picks another model: currentIndexChanged runs
\* calculateMessage, currentTextChanged runs change_model, whose changes of
\* check boxes and of comboBox_Range run calculateMessage again
comboBox_Model_currentTextChanged ==
  /\ dialogGRIB # None
  /\ \E new_model \in Models \ {dialogGRIB.comboBox_Model} :
       dialogGRIB' = calculateMessageGRIB(change_model(
         calculateMessageGRIB([dialogGRIB EXCEPT !.comboBox_Model = new_model]),
         new_model))
  /\ UNCHANGED <<link, files, labels, dialogMessage>>

\* the operator clicks a check box that is enabled
checkBox_stateChanged ==
  /\ dialogGRIB # None
  /\ \E box \in dialogGRIB.enabled :
       dialogGRIB' = calculateMessageGRIB(
         [dialogGRIB EXCEPT
            !.checked = IF box \in @ THEN @ \ {box} ELSE @ \cup {box},
            !.toggled = TRUE])
  /\ UNCHANGED <<link, files, labels, dialogMessage>>

\* the operator picks the first or the last range
comboBox_Range_currentIndexChanged ==
  /\ dialogGRIB # None
  /\ \E index \in ({1, Len(dialogGRIB.comboBox_Range_items)}
                     \cap DOMAIN dialogGRIB.comboBox_Range_items)
                   \ {dialogGRIB.comboBox_Range} :
       dialogGRIB' = calculateMessageGRIB(
         [dialogGRIB EXCEPT !.comboBox_Range = index])
  /\ UNCHANGED <<link, files, labels, dialogMessage>>

comboBox_Res_currentIndexChanged ==
  /\ dialogGRIB # None
  /\ \E res \in ResItems \ {dialogGRIB.comboBox_Res} :
       dialogGRIB' = calculateMessageGRIB([dialogGRIB EXCEPT !.comboBox_Res = res])
  /\ UNCHANGED <<link, files, labels, dialogMessage>>

comboBox_Interval_currentIndexChanged ==
  /\ dialogGRIB # None
  /\ \E interval \in IntervalItems \ {dialogGRIB.comboBox_Interval} :
       dialogGRIB' = calculateMessageGRIB(
         [dialogGRIB EXCEPT !.comboBox_Interval = interval])
  /\ UNCHANGED <<link, files, labels, dialogMessage>>

spinBox_valueChanged ==
  /\ dialogGRIB # None
  /\ \E spinBox \in DOMAIN SpinValues :
       \E value \in SpinValues[spinBox] \ {dialogGRIB[spinBox]} :
         dialogGRIB' = calculateMessageGRIB([dialogGRIB EXCEPT ![spinBox] = value])
  /\ UNCHANGED <<link, files, labels, dialogMessage>>

\* Ui.Button_Get_GRIB_click after dialog.exec_() has returned;
\* QDialogGRIB.returnString is the text of lineEdit_Request
Button_Get_GRIB_done ==
  /\ dialogGRIB # None
  /\ Leave(sendTDSwarm(Enter, APPID_OUTGOING_GRIBRQ, dialogGRIB.lineEdit_Request))
  /\ dialogGRIB' = None
  /\ UNCHANGED <<files, labels, dialogMessage>>

(***************************************************************************)
(* The status label, the one-second timer and the refresh button.          *)
(***************************************************************************)
\* str(self.tx_waiting): an int is printed in decimal, a str is itself
str_of(value) == IF value.type = "int" THEN str(value.val) ELSE value.val

\* system_status.print_nice with the tests for the bands in reverse order
status_print_nice_reversed(self) ==
  LET head == <<self.comm_status, "\n", "RSSI: ">> \o str(self.RSSI.val)
      band == IF self.RSSI.val >= -90 THEN <<" Bad">>
              ELSE IF self.RSSI.val <= -105 THEN <<" Great">>
              ELSE IF self.RSSI.val <= -100 THEN <<" Good">>
              ELSE IF self.RSSI.val <= -97 THEN <<" OK">>
              ELSE IF self.RSSI.val <= -93 THEN <<" Marginal">>
              ELSE <<>>
      tx == IF ~PyEq(self.tx_waiting, PyInt(0))
            THEN <<"\n", "TX Waiting: ">> \o str_of(self.tx_waiting) ELSE <<>>
      rx == IF ~PyEq(self.rx_waiting, PyInt(0))
            THEN <<"\n", "RX Waiting: ">> \o str_of(self.rx_waiting) ELSE <<>>
  IN head \o band \o tx \o rx

\* system_status.print_nice with 'Bad' starting one dBm lower
status_print_nice_wider_bad(self) ==
  LET head == <<self.comm_status, "\n", "RSSI: ">> \o str(self.RSSI.val)
      band == IF self.RSSI.val >= -91 THEN <<" Bad">>
              ELSE IF self.RSSI.val <= -93 THEN <<" Marginal">>
              ELSE IF self.RSSI.val <= -97 THEN <<" OK">>
              ELSE IF self.RSSI.val <= -100 THEN <<" Good">>
              ELSE IF self.RSSI.val <= -105 THEN <<" Great">>
              ELSE <<>>
      tx == IF ~PyEq(self.tx_waiting, PyInt(0))
            THEN <<"\n", "TX Waiting: ">> \o str_of(self.tx_waiting) ELSE <<>>
      rx == IF ~PyEq(self.rx_waiting, PyInt(0))
            THEN <<"\n", "RX Waiting: ">> \o str_of(self.rx_waiting) ELSE <<>>
  IN head \o band \o tx \o rx

\* system_status.print_nice: the returned text as the sequence of the
\* pieces that are concatenated, comm_status and the literals whole, the
\* numbers character by character
status_print_nice(self) ==
  LET head == <<self.comm_status, "\n", "RSSI: ">> \o str(self.RSSI.val)
      band == IF self.RSSI.val >= -90 THEN <<" Bad">>
              ELSE IF self.RSSI.val <= -93 THEN <<" Marginal">>
              ELSE IF self.RSSI.val <= -97 THEN <<" OK">>
              ELSE IF self.RSSI.val <= -100 THEN <<" Good">>
              ELSE IF self.RSSI.val <= -105 THEN <<" Great">>
              ELSE <<>>
      tx == IF ~PyEq(self.tx_waiting, PyInt(0))
            THEN <<"\n", "TX Waiting: ">> \o str_of(self.tx_waiting) ELSE <<>>
      rx == IF ~PyEq(self.rx_waiting, PyInt(0))
            THEN <<"\n", "RX Waiting: ">> \o str_of(self.rx_waiting) ELSE <<>>
  IN head \o band \o tx \o rx

\* Ui.timer1s_exec; the label data_GNSS and the text of Button_GPS_Tracker,
\* which it also refreshes, are not among the variables
timer1s_exec ==
  /\ \E s \in {IF ~portAvailable
               THEN TryClose([Enter EXCEPT
                      !.comm_status = "Error: Port No Longer Available!"])
               ELSE Enter} :
       /\ Leave(s)
       /\ data_Status' = status_print_nice(
            [comm_status |-> s.comm_status, RSSI |-> RSSI,
             tx_waiting |-> tx_waiting, rx_waiting |-> rx_waiting])
  /\ UNCHANGED <<files, dialogs>>

\* Ui.receive when the device reports a signal strength
receive_RSSI == \E n \in RSSIValues : receive_chunk(<<LineRT(n)>>)

\* Ui.Button_Refresh_PORT_click; update_com_ports refills comboBox_PORT, so
\* the selected port is the first of gen_serial_ports() if there is one
Button_Refresh_PORT_click ==
  /\ \E listed \in BOOLEAN : portAvailable' = listed
  /\ \E s \in {TryClose(Enter)} :
       /\ ser' = s.ser
       /\ rxbuf' = s.rxbuf
  /\ comm_status' = "Disconnected"
  /\ wire' = <<>>
  /\ Serial_Monitor_Display' = <<>>
  /\ Messages_Display' = <<>>
  /\ polled' = <<>>
  /\ last_text' = <<>>
  /\ nread' = 0
  /\ uncaught' = "none"
  /\ UNCHANGED <<RSSI, tx_waiting, rx_waiting, current_geolocation,
                 files, labels, dialogs>>

Next ==
  \/ Button_Open_Port_click
  \/ Button_Close_Port_click
  \/ Button_Mailbox_click
  \/ timer5s_exec
  \/ Button_Serial_Monitor_Send_click
  \/ PortListChanges
  \/ receive

Spec == Init /\ [][Next]_vars

\* the persistence of retrieved messages on its own
NextDisk == Persist

SpecDisk == Init /\ [][NextDisk]_vars

\* the text message dialog and the port it sends to
NextMessage ==
  \/ NoDialog /\ Button_Open_Port_click
  \/ NoDialog /\ Button_Close_Port_click
  \/ Button_Send_Message_click
  \/ lineEdit_TO_textChanged
  \/ lineEdit_Subject_textChanged
  \/ plainTextEdit_Message_textChanged
  \/ Button_Send_Message_done

SpecMessage == Init /\ [][NextMessage]_vars

\* the GRIB request dialog
NextGRIB ==
  \/ Button_Get_GRIB_click
  \/ comboBox_Model_currentTextChanged
  \/ checkBox_stateChanged
  \/ comboBox_Range_currentIndexChanged
  \/ comboBox_Res_currentIndexChanged
  \/ comboBox_Interval_currentIndexChanged
  \/ spinBox_valueChanged
  \/ Button_Get_GRIB_done

SpecGRIB == Init /\ [][NextGRIB]_vars

\* the signal reports and the status label
NextStatus ==
  \/ Button_Open_Port_click
  \/ receive_RSSI
  \/ timer1s_exec

SpecStatus == Init /\ [][NextStatus]_vars

\* the handlers that open and close the port and set comm_status
NextPort ==
  \/ Button_Open_Port_click
  \/ Button_Close_Port_click
  \/ Button_Refresh_PORT_click
  \/ Button_Mailbox_click
  \/ timer1s_exec
  \/ PortListChanges

SpecPort == Init /\ [][NextPort]_vars

(***************************************************************************)
(* The wire contract, stated from the byte values.                         *)
(***************************************************************************)
Bit(n, b) == (n \div (2 ^ b)) % 2

\* bit b of the XOR of bytes: the parity of the bytes that have bit b set
ParityBit(bytes, b) ==
  Cardinality({i \in DOMAIN bytes : Bit(bytes[i], b) = 1}) % 2

XorFold(bytes) ==
  ParityBit(bytes, 0) + 2 * ParityBit(bytes, 1) + 4 * ParityBit(bytes, 2)
    + 8 * ParityBit(bytes, 3) + 16 * ParityBit(bytes, 4)
    + 32 * ParityBit(bytes, 5) + 64 * ParityBit(bytes, 6)
    + 128 * ParityBit(bytes, 7)

\* the ASCII code of an upper-case hexadecimal digit
HexByte(n) == IF n < 10 THEN 48 + n ELSE 55 + n

\* '$' command '*' HH newline
WireFormat(message) ==
  LET body == encode(message)
      c == XorFold(body)
  IN <<36>> \o body \o <<42, HexByte(c \div 16), HexByte(c % 16), 10>>

\* C1: every command written to the transport is written as '$', the
\* command text, '*', the XOR fold of its byte values as two upper-case
\* hexadecimal digits, and a newline, with nothing else in between.
CX_C1_FrameIsBitExact ==
  \A i \in DOMAIN wire : wire[i].bytes = WireFormat(wire[i].message)

(***************************************************************************)
(* The mailbox drain.                                                      *)
(***************************************************************************)
\* the identifiers a poll reply lists: the fields after the tag, without the
\* checksum and the empty field the line terminator leaves
Identifiers(list_messages) == SubSeq(list_messages, 1, Len(list_messages) - 2)

RECURSIVE Concat(_)
Concat(lists) ==
  IF lists = <<>> THEN <<>>
  ELSE Identifiers(Head(lists)) \o Concat(Tail(lists))

\* the identifiers handed to the sequencer by the latest handler, in order
Announced == Concat(polled)

MMR == <<"M", "M", " ", "R", "=">>

IsRetrieval(w) == Len(w.message) >= Len(MMR) /\ SubSeq(w.message, 1, Len(MMR)) = MMR

\* C2: for a poll reply that lists identifiers, the sequencer issues exactly
\* one retrieval command 'MM R=<id>' per identifier, in list order.
CX_C2_OneRetrievalPerIdentifier ==
  LET retrievals == SelectSeq(wire, IsRetrieval) IN
    /\ Len(retrievals) = Len(Announced)
    /\ \A i \in DOMAIN retrievals : retrievals[i].message = MMR \o Announced[i]

\* C3: a drain of three identifiers [A, B, C] in which one retrieval fails
\* still emits the messages of the other two.
CX_C3_DrainSurvivesOneFailure ==
  \A i \in DOMAIN polled :
    Len(Identifiers(polled[i])) = 3 => Len(Messages_Display) >= 2

\* C10: exactly one entry is emitted to the message display per message of
\* the drain, as a received line.
CX_C10_OneEntryPerMessage ==
  /\ Len(Messages_Display) = Len(Announced)
  /\ \A i \in DOMAIN Messages_Display : Messages_Display[i].dir = "<"

(***************************************************************************)
(* Telemetry dispatch.                                                     *)
(***************************************************************************)
\* the fields of a line between its tag and its checksum
Payload(line) == SubSeq(Split(line), 2, Len(Split(line)) - 2)

IsGN(line) == Tag(line) = <<"$", "G", "N">>

\* a '$GN' line with fewer than five fields after the tag
IsShortFix(line) == IsGN(line) /\ Len(Payload(line)) < 5

\* the Raw line the display gets for a line
Raw(line) == Shown("<", Strip(line))

\* C4: a handler run that reads one '$GN' line with fewer than five fields
\* raises nothing, shows the line as a Raw line and leaves all five fields
\* of the geolocation record as they were.
CX_C4_ShortFixIsRawAndIgnored ==
  [][(nread' = 1 /\ IsShortFix(last_text')) =>
       /\ uncaught' = "none"
       /\ Serial_Monitor_Display' = <<Raw(last_text')>>
       /\ current_geolocation' = current_geolocation]_vars

\* the five-field tuple a complete '$GN' line carries
FixOf(line) ==
  LET f == Payload(line) IN
    [latitude |-> ParseFloat(f[1]), longitude |-> ParseFloat(f[2]),
     altitude |-> ParseInt(f[3]), course |-> ParseInt(f[4]),
     speed |-> ParseInt(f[5])]

CompleteFixes ==
  {FixOf(line) : line \in {l \in DeviceLines : IsGN(l) /\ Len(Payload(l)) = 5}}

\* C5: between handlers the geolocation record is its initial value or the
\* complete five-field tuple of one single '$GN' line, never a mix.
CX_C5_FixIsNeverMixed ==
  current_geolocation \in {Geolocation} \cup CompleteFixes

\* C6: when the receive handler has returned, no complete line is left in
\* the read buffer: a break or a raise on one line does not keep the lines
\* behind it from being processed.
CX_C6_ReadLoopDrainsBuffer == rxbuf = <<>>

Field(line, k) == IF Len(Split(line)) >= k THEN Split(line)[k] ELSE <<>>

\* a line the decoder has to degrade to Raw: its tag is not recognized, or a
\* field its tag needs is missing or not a number
NeedsRaw(line) ==
  LET tag == Tag(line) IN
    IF tag = <<"$", "R", "T">> THEN ~IsInt(Field(line, 3))
    ELSE IF tag \in {<<"$", "M", "T">>, <<"$", "M", "M">>}
      THEN ~IsInt(Field(line, 2))
    ELSE IF tag = <<"$", "G", "N">>
      THEN \/ ~IsFloat(Field(line, 2)) \/ ~IsFloat(Field(line, 3))
           \/ ~IsInt(Field(line, 4)) \/ ~IsInt(Field(line, 5))
           \/ ~IsInt(Field(line, 6))
    ELSE TRUE

\* C7: a line whose tag is not recognized, or whose fields are missing or
\* not numeric, is forwarded to the display as a Raw line.
CX_C7_UndecodableLineIsShown ==
  (last_text # <<>> /\ NeedsRaw(last_text)) =>
    /\ Serial_Monitor_Display # <<>>
    /\ Serial_Monitor_Display[Len(Serial_Monitor_Display)] = Raw(last_text)

\* the integer a count line carries in field k
Carried(line, k) == PyInt(ParseInt(Field(line, k)))

\* C8: rssi, txWaiting and rxWaiting always hold integers, and after a
\* well-formed '$RT', '$MT' or '$MM' line was processed the field of that
\* tag holds the integer the line carries.
CX_C8_StatusFieldsHoldCarriedIntegers ==
  /\ RSSI.type = "int" /\ tx_waiting.type = "int" /\ rx_waiting.type = "int"
  /\ (last_text # <<>> /\ ~NeedsRaw(last_text)) =>
       /\ Tag(last_text) = <<"$", "R", "T">> => RSSI = Carried(last_text, 3)
       /\ Tag(last_text) = <<"$", "M", "T">> => tx_waiting = Carried(last_text, 2)
       /\ Tag(last_text) = <<"$", "M", "M">> => rx_waiting = Carried(last_text, 2)

(***************************************************************************)
(* Persistence of retrieved messages.                                      *)
(***************************************************************************)
\* the appID a retrieved line carries is the INCOMING_GRIB id
IsGribReply(new_message) == Split(new_message)[1] = str(APPID_INCOMING_GRIB)

\* the line the message log gets for a retrieved line
LogLine(new_message) == Shown("<", <<"New Message ">> \o Split(new_message)[5])

\* C11: a retrieved message whose appID is the INCOMING_GRIB id is never
\* appended to the message log, and a message with another appID is never
\* written as a GRIB payload file.
CX_C11_GribPayloadKeptOutOfLog ==
  \A new_message \in {l \in ReplyLines : Constructible(l)} :
    IF IsGribReply(new_message)
    THEN \A i \in DOMAIN MSGLOG : MSGLOG[i] # LogLine(new_message)
    ELSE \A file \in GRIBFOLDER :
           file.content # <<"New Message ">> \o Split(new_message)[5]

(***************************************************************************)
(* Sends the transport cannot accept.                                      *)
(***************************************************************************)
\* the states of LinkStatus that show the operator an error
ErrorStates == {"Error: Port Not Available!", "Error: Port No Longer Available!"}

\* the selected port is missing from the port list, was never opened, or
\* has been closed
CannotAccept == ~portAvailable \/ ser # "open"

\* the lines of the serial monitor that show a frame as sent
ShownAsSent == SelectSeq(Serial_Monitor_Display, LAMBDA e : e.dir = ">")

\* C14: a poll sent by the 5-second timer or the mailbox button while the
\* transport cannot accept it lets no exception out of the send, shows no
\* frame as sent and puts LinkStatus.state in an error state.
CX_C14_RefusedSendBecomesErrorState ==
  [][((timer5s_exec \/ Button_Mailbox_click) /\ CannotAccept) =>
       /\ uncaught' = "none"
       /\ wire' = <<>> /\ ShownAsSent' = <<>>
       /\ comm_status' \in ErrorStates]_vars

(***************************************************************************)
(* The empty command.                                                      *)
(***************************************************************************)
\* C15: send_Serial_Command('') writes no byte: what has been written to the
\* transport is after the call what it was before it.
TH_C15_EmptyCommandWritesNothing ==
  [][Leave(send_Serial_Command(Enter, <<>>, TRUE)) => wire' = <<>>]_vars

\* the empty command was sent while the port was open and was answered with
\* the warning
W_C15_EmptyCommandOnOpenPort ==
  /\ ser = "open"
  /\ portAvailable
  /\ Serial_Monitor_Display =
       <<Notice("Warning: Nothing To Do! Message Is Empty!")>>
  /\ wire = <<>>

(***************************************************************************)
(* Text messages.                                                          *)
(***************************************************************************)
\* how a text message is handed to the transport: TD AI=37500,"<message>"
TextCommand == <<"T", "D", " ", "A", "I", "=">> \o str(APPID_OUTGOING_MESSAGE) \o <<",", "\"">>

IsTextMessage(w) ==
  /\ Len(w.message) > Len(TextCommand)
  /\ SubSeq(w.message, 1, Len(TextCommand)) = TextCommand

\* the message inside the quotes
Handed(w) == SubSeq(w.message, Len(TextCommand) + 1, Len(w.message) - 1)

\* T:<to>S:<subject>M<body> of the fields of a dialog
Verbatim(dialog) ==
  <<"T", ":">> \o dialog.lineEdit_TO \o <<"S", ":">> \o dialog.lineEdit_Subject
    \o <<"M">> \o dialog.plainTextEdit_Message

\* C16: the text message handed to the transport when the dialog closes is
\* a two-digit sequence number, the routing byte, the type byte and then
\* T:<to>S:<subject>M<body> with the fields of the dialog verbatim, also when
\* no field was edited.
CX_C16_TextMessageLayout ==
  [][(dialogMessage # None /\ dialogMessage' = None) =>
       \A i \in DOMAIN wire' :
         IsTextMessage(wire'[i]) =>
           \E sequence \in 10..99 :
             Handed(wire'[i]) =
               str(sequence) \o <<"1", "1">> \o Verbatim(dialogMessage)]_vars

\* the length of the full outbound message of a dialog: sequence number,
\* routing byte, type byte and T:<to>S:<subject>M<body>
FullLength(dialog) == 2 + 1 + 1 + Len(Verbatim(dialog))

\* C17: the character count shown for a text message is the length of the
\* full outbound message, and the packet count is that length divided by
\* 192, rounded up.
CX_C17_SizeCountsFullMessage ==
  (dialogMessage # None /\ dialogMessage.label_Size_Calc # LabelOfForm) =>
    /\ dialogMessage.label_Size_Calc.chars = FullLength(dialogMessage)
    /\ dialogMessage.label_Size_Calc.packets * 192 >= FullLength(dialogMessage)
    /\ (dialogMessage.label_Size_Calc.packets - 1) * 192 < FullLength(dialogMessage)

(***************************************************************************)
(* GRIB requests.                                                          *)
(***************************************************************************)
\* C18: model GFS, bounding box (57,44,133,113), resolution 2.0,2.0,
\* interval 0,6,12..48 and the fields WIND and PRESS serialize to
\* GFS:57,44,133,113|2.0,2.0|0,6,12..48|WIND,PRESS.
CX_C18_ExampleRequest ==
  (/\ dialogGRIB # None
   /\ dialogGRIB.comboBox_Model = <<"G", "F", "S">>
   /\ dialogGRIB.spinBox_Lat_Max = 57 /\ dialogGRIB.spinBox_Lat_Min = 44
   /\ dialogGRIB.spinBox_Long_Min = 133 /\ dialogGRIB.spinBox_Long_Max = 113
   /\ dialogGRIB.comboBox_Res = <<"2", ".", "0", ",", "2", ".", "0">>
   /\ dialogGRIB.comboBox_Interval = <<"0", ",", "6", ",", "1", "2", ".", ".", "4", "8">>
   /\ dialogGRIB.checked = {"checkBox_Wind", "checkBox_Pressure"}) =>
    dialogGRIB.lineEdit_Request =
      <<"G", "F", "S", ":", "5", "7", ",", "4", "4", ",", "1", "3", "3", ",", "1", "1", "3", "|", "2", ".", "0", ",", "2", ".", "0", "|", "0", ",", "6", ",", "1", "2", ".", ".", "4", "8", "|", "W", "I", "N", "D", ",", "P", "R", "E", "S", "S">>

RECURSIVE JoinComma(_)
\* the texts of a list of vocabulary entries with a comma between them
JoinComma(entries) ==
  IF entries = <<>> THEN <<>>
  ELSE IF Len(entries) = 1 THEN entries[1].text
  ELSE entries[1].text \o <<",">> \o JoinComma(Tail(entries))

\* the vocabulary entries a dialog has selected
Selected(dialog) == SelectSeq(CheckBoxes, LAMBDA c : c.box \in dialog.checked)

\* <model>:<latMax>,<latMin>,<lonMin>,<lonMax>|<resolution>|<interval>,<range>|<fields>
RequestFormat(dialog) ==
  dialog.comboBox_Model \o <<":">>
    \o str(dialog.spinBox_Lat_Max) \o <<",">> \o str(dialog.spinBox_Lat_Min)
    \o <<",">> \o str(dialog.spinBox_Long_Min) \o <<",">>
    \o str(dialog.spinBox_Long_Max)
    \o <<"|">> \o dialog.comboBox_Res
    \o <<"|">> \o dialog.comboBox_Interval \o <<",">> \o RangeText(dialog)
    \o <<"|">> \o JoinComma(Selected(dialog))

\* C19: the request string of the dialog is
\* <model>:<latMax>,<latMin>,<lonMin>,<lonMax>|<resolution>|<interval>,<range>|<fields>
\* with exactly the selected fields joined by commas; it never ends with a
\* comma and holds the three separators also when no field is selected.
CX_C19_RequestFormat ==
  dialogGRIB # None =>
    /\ dialogGRIB.lineEdit_Request = RequestFormat(dialogGRIB)
    /\ dialogGRIB.lineEdit_Request[Len(dialogGRIB.lineEdit_Request)] # ","
    /\ Len(SelectSeq(dialogGRIB.lineEdit_Request, LAMBDA c : c = "|")) = 3

\* C20: while RTOFS is the selected model the checked fields are exactly
\* CUR, the request asks for exactly CUR and the range options are exactly
\* 1..6, whatever was selected and toggled before; holding in every state,
\* this leaves no toggle that changes the fields while RTOFS stays selected.
TH_C20_RtofsForcesCurrentOnly ==
  (dialogGRIB # None /\ dialogGRIB.comboBox_Model = <<"R", "T", "O", "F", "S">>) =>
    /\ dialogGRIB.checked = {"checkBox_Current"}
    /\ dialogGRIB.comboBox_Range_items = <<<<"1">>, <<"2">>, <<"3">>, <<"4">>, <<"5">>, <<"6">>>>
    /\ SubSeq(dialogGRIB.lineEdit_Request, Len(dialogGRIB.lineEdit_Request) - 3,
              Len(dialogGRIB.lineEdit_Request)) = <<"|", "C", "U", "R">>

\* RTOFS was selected after the operator had toggled fields under another
\* model
W_C20_RtofsAfterToggles ==
  /\ dialogGRIB # None
  /\ dialogGRIB.comboBox_Model = <<"R", "T", "O", "F", "S">>
  /\ dialogGRIB.toggled
  /\ dialogGRIB.checked = {"checkBox_Current"}

\* C21: in every reachable state in which GFS is the selected model, whatever
\* fields were toggled, WIND and PRESS are both checked, CUR is not checked
\* and the range options are exactly 1..16.
CX_C21_GfsForcesWindAndPressure ==
  (dialogGRIB # None /\ dialogGRIB.comboBox_Model = <<"G", "F", "S">>) =>
    /\ {"checkBox_Wind", "checkBox_Pressure"} \subseteq dialogGRIB.checked
    /\ "checkBox_Current" \notin dialogGRIB.checked
    /\ dialogGRIB.comboBox_Range_items = RangeItems(16)

\* the words for the quality bands
BandWords == {" Bad", " Marginal", " OK", " Good", " Great"}

\* the bands as the claim lists them, in the order in which they are tested
Bands ==
  <<[test |-> ">=", limit |-> -90, word |-> " Bad"],
    [test |-> "<=", limit |-> -93, word |-> " Marginal"],
    [test |-> "<=", limit |-> -97, word |-> " OK"],
    [test |-> "<=", limit |-> -100, word |-> " Good"],
    [test |-> "<=", limit |-> -105, word |-> " Great"]>>

Matches(b, rssi) == IF b.test = ">=" THEN rssi >= b.limit ELSE rssi <= b.limit

\* the word of the first band that matches, none if none matches
FirstMatch(rssi) ==
  LET hits == {i \in DOMAIN Bands : Matches(Bands[i], rssi)}
  IN IF hits = {} THEN {}
     ELSE {Bands[CHOOSE i \in hits : \A j \in hits : i <= j].word}

\* the band words a status text shows
BandShown(label) == {label[i] : i \in DOMAIN label} \cap BandWords

RECURSIVE NumberAt(_, _)
\* the characters of the number that starts at position i of a status text
NumberAt(label, i) ==
  IF i > Len(label) \/ label[i] \notin (Digits \cup {"-"}) THEN <<>>
  ELSE <<label[i]>> \o NumberAt(label, i + 1)

\* the RSSI a status text shows, behind comm_status, the line break and "RSSI: "
RSSIShown(label) == ParseInt(NumberAt(label, 4))

\* C22: whatever integer RSSI the status label shows, the band it shows is
\* the first that matches when the bands are tested in the order >= -90
\* 'Bad', <= -93 'Marginal', <= -97 'OK', <= -100 'Good', <= -105 'Great',
\* and at most one band is shown.
TH_C22_FirstMatchingBandIsShown ==
  data_Status # <<>> =>
    /\ BandShown(data_Status) = FirstMatch(RSSIShown(data_Status))
    /\ Cardinality({i \in DOMAIN data_Status : data_Status[i] \in BandWords}) <= 1

\* the label shows -100, which three of the bands match
W_C22_SeveralBandsMatch ==
  /\ data_Status # <<>>
  /\ RSSIShown(data_Status) = -100
  /\ Cardinality({i \in DOMAIN Bands : Matches(Bands[i], -100)}) = 3
  /\ BandShown(data_Status) = {" Marginal"}

\* C27: whatever integer RSSI the status label shows, the band it shows is
\* 'Bad', 'Marginal' or none, never 'OK', 'Good' or 'Great', and no band is
\* shown exactly for -91 and -92.
TH_C27_OnlyBadMarginalOrNone ==
  data_Status # <<>> =>
    /\ BandShown(data_Status) \subseteq {" Bad", " Marginal"}
    /\ BandShown(data_Status) = {} <=> RSSIShown(data_Status) \in {-91, -92}

\* the label shows -92 without a band
W_C27_NoBandShown ==
  /\ data_Status # <<>>
  /\ RSSIShown(data_Status) = -92
  /\ BandShown(data_Status) = {}

\* the bytes a written frame carries between its '*' and its newline
ChecksumField(w) ==
  SubSeq(w.bytes, Len(encode(w.message)) + 3, Len(w.bytes) - 1)

\* C23: for every command written, also one with characters outside ASCII,
\* the checksum is one byte, 0x00..0xFF, equal to the XOR of the UTF-8 byte
\* values of the command, and the frame carries it as exactly two
\* hexadecimal digits.
CX_C23_ChecksumIsOneUtf8Byte ==
  \A i \in DOMAIN wire :
    /\ chksum_nmea(wire[i].message) \in 0..255
    /\ chksum_nmea(wire[i].message) = XorFold(encode(wire[i].message))
    /\ Len(ChecksumField(wire[i])) = 2

\* C24: when the handler has processed the poll reply '$MM 0', which
\* reports no unread message, it has issued no retrieval command and has
\* handed nothing to the sequencer, which so is idle.
TH_C24_NoUnreadNoRetrieval ==
  last_text = LineMM0 =>
    /\ \A i \in DOMAIN wire : ~IsRetrieval(wire[i])
    /\ polled = <<>>
    /\ Messages_Display = <<>>
    /\ uncaught = "none"

\* the reply '$MM 0' was processed behind another line of the same arrival
W_C24_ZeroUnreadProcessed ==
  /\ ser = "open"
  /\ last_text = LineMM0
  /\ nread = 2

\* C25: in every reachable state comm_status is 'Comm OK' only while the
\* serial port is open; after Button_Close_Port_click has closed the port,
\* or after an open attempt that left the port not open, it is not 'Comm OK'.
CX_C25_CommOkOnlyWhileOpen ==
  comm_status = "Comm OK" => ser = "open"

\* the commands a handler wrote, in the order of writing
CommandsWritten(written) == [i \in DOMAIN written |-> written[i].message]

\* C26: Button_Open_Port_click on a listed port that is already open writes
\* none of the commands CS, FV, GN 2, RT 2, MM L=U, MT C=U, leaves the port
\* open and leaves comm_status as it was; the click writes the six commands,
\* in that order, when and only when it opens a port that was not open.
TH_C26_OpenOnOpenPortChangesNothing ==
  [][Button_Open_Port_click =>
       /\ (portAvailable /\ ser = "open") =>
            /\ wire' = <<>>
            /\ ser' = "open"
            /\ comm_status' = comm_status
       /\ (ser # "open" /\ ser' = "open") <=>
            CommandsWritten(wire') = <<CS, FV, GN2, RT2, MMLU, MTCU>>
       /\ wire' # <<>> =>
            CommandsWritten(wire') = <<CS, FV, GN2, RT2, MMLU, MTCU>>]_vars

\* the click found the listed port open: it only left its notice
W_C26_ClickedOnOpenPort ==
  /\ portAvailable
  /\ ser = "open"
  /\ Serial_Monitor_Display = <<Notice("Port Is Already Open!")>>
  /\ wire = <<>>

====
